---- MODULE Spec2Model ----
(***************************************************************************)
(* Model of the randutil entropy-source / bias-free generator core and of  *)
(* the samplers built on it.                                               *)
(*                                                                         *)
(* One operation runs at a time (the library is synchronous call/return).  *)
(* An operation is started by its own action, which performs the           *)
(* parameter checks of the Go function; every read of the entropy source   *)
(* is one SourceRead step, whose returned byte count, bytes and error are  *)
(* chosen by the environment as io.Reader allows; on completion of an      *)
(* io.ReadFull the rest of the Go function runs up to its next read or its *)
(* return.                                                                 *)
(*                                                                         *)
(* Widths are scaled: a byte has ByteBits bits and a uint64 has WordBytes   *)
(* bytes, so uint64 arithmetic is arithmetic modulo 2^WordBits; int64 is    *)
(* the signed WordBits-bit type, int32 the signed HalfBits-bit type, and    *)
(* the platform int of the build that runs a call is either of the two.    *)
(* A float64 in [0,1) produced by Float64 is represented by its numerator  *)
(* over FloatDenom.                                                         *)
(***************************************************************************)
EXTENDS Integers, Sequences, FiniteSets, TLC

\* ---- bounds -------------------------------------------------------------
ByteBits == 2
WordBytes == 2
DiscardBits == 2
MaxLen == 2
MaxDraws == 3
MaxItems == 2
MaxSeedLen == 2
MaxCalls == 2
MaxSets == 2
MaxSupport == 3

\* ---- integer helpers ----------------------------------------------------
RECURSIVE Pow2(_)
Pow2(k) == IF k <= 0 THEN 1 ELSE 2 * Pow2(k - 1)

WordBits == ByteBits * WordBytes
HalfBits == WordBits \div 2
Byte == 0..(Pow2(ByteBits) - 1)
Word == 0..(Pow2(WordBits) - 1)

maxUint64 == Pow2(WordBits) - 1
maxInt64 == Pow2(WordBits - 1) - 1
minInt64 == -maxInt64 - 1
maxInt32 == Pow2(HalfBits - 1) - 1
minInt32 == -maxInt32 - 1

\* uint64(x) / int64(x): two's complement conversions at WordBits bits
ToUint64(x) == x % Pow2(WordBits)
ToInt64(x) == LET m == x % Pow2(WordBits)
              IN IF m > maxInt64 THEN m - Pow2(WordBits) ELSE m
\* int32(x): two's complement conversion at HalfBits bits
ToInt32(x) == LET m == x % Pow2(HalfBits)
              IN IF m > maxInt32 THEN m - Pow2(HalfBits) ELSE m

RECURSIVE Pow(_, _)
Pow(b, e) == IF e <= 0 THEN 1 ELSE b * Pow(b, e - 1)

RECURSIVE BitLen(_)
BitLen(x) == IF x <= 0 THEN 0 ELSE 1 + BitLen(x \div 2)

Abs(x) == IF x < 0 THEN -x ELSE x

Zeros(n) == [i \in 1..n |-> 0]

\* binary.LittleEndian.Uint64(b)
RECURSIVE LittleEndian(_)
LittleEndian(b) ==
  IF Len(b) = 0 THEN 0
  ELSE b[1] + Pow2(ByteBits) * LittleEndian(Tail(b))

\* big.Int.SetBytes(b): big-endian
RECURSIVE SetBytes(_)
SetBytes(b) ==
  IF Len(b) = 0 THEN 0
  ELSE b[1] * Pow2(ByteBits * (Len(b) - 1)) + SetBytes(Tail(b))

\* ---- errors -------------------------------------------------------------
NoErr == "nil"
EOF == "EOF"
ErrUnexpectedEOF == "ErrUnexpectedEOF"
SrcErrs == {"EOF", "ErrIO"}

Gens == {"source", "reader"}

\* ---- state --------------------------------------------------------------
VARIABLES
  pc,             \* "idle" | "read" | "done"
  op,             \* name of the operation in progress / last finished
  gen,            \* "source": Generator{src Source}; "reader": Generator{R io.Reader}
  arg,            \* the call's parameters
  loc,            \* the call's local variables
  buf,            \* the byte slice handed to the entropy source (a local
                  \* array is gone once its function has returned)
  nfill,          \* bytes of buf written by the current io.ReadFull / Read
  mode,           \* "full": io.ReadFull loop; "once": one direct Read
  res,            \* returned value
  err,            \* returned error
  draws,          \* buffers this operation has already read in full
  consumed,       \* bytes delivered by the source to this operation
  srcErr,         \* the source has returned an error to this operation
  failErr,        \* error of a source read that left its buffer incomplete
  readAfterErr,   \* a read was issued after the source had returned an error
  readAfterFail,  \* a read was issued after a failed (incomplete) read
  det,            \* the deterministic sources constructed so far
  mu,             \* the sync.Mutex of each locking wrapper: its holder
  caller,         \* where each goroutine calling a locking wrapper stands
  sourceMux,      \* the sync.RWMutex guarding currentSource
  currentSource,  \* the process-wide source: an interface value, two words
  nset,           \* assignments to currentSource started so far
  retSet,         \* latest assignment whose SetSource/ResetSource returned
  user,           \* where each goroutine using the default source stands
  made,           \* the Generators constructed so far, with their source field
  reads,          \* the sources each Generator has read from
  via,            \* the Generator on whose behalf a goroutine uses Reader()
  zipf            \* the Zipf sampler built last: its fields, imax = 0 for nil

callVars == <<pc, op, gen, arg, loc, buf, nfill, mode, res, err,
              draws, consumed, srcErr, failErr, readAfterErr, readAfterFail>>
coreVars == <<callVars, zipf>>
\* the state of the adapters, untouched by the calls on one Generator
detVars == <<det>>
lockVars == <<mu, caller>>
globalVars == <<sourceMux, currentSource, nset, retSet, user>>
bindVars == <<made, reads, via>>
adapterVars == <<detVars, lockVars, globalVars, bindVars>>
vars == <<coreVars, adapterVars>>

\* widths the platform int can have
IntSizes == {HalfBits, WordBits}
maxInt(bits) == Pow2(bits - 1) - 1
minInt(bits) == -maxInt(bits) - 1

\* bits: the width of int in the build that runs the call
NoArg == [bits |-> WordBits, n |-> 0, lo |-> 0, hi |-> 0, ws |-> <<>>, k |-> 0]
NoLoc == [path |-> "", bound |-> 0, raw |-> 0, off |-> 0, i |-> 0, keys |-> <<>>,
          pn |-> 1, pk |-> 0, u |-> 0, phase |-> 0]

Init ==
  /\ pc = "idle"
  /\ op = "none"
  /\ gen = "source"
  /\ arg = NoArg
  /\ loc = NoLoc
  /\ buf = <<>>
  /\ nfill = 0
  /\ mode = "full"
  /\ res = 0
  /\ err = NoErr
  /\ draws = 0
  /\ consumed = 0
  /\ srcErr = FALSE
  /\ failErr = NoErr
  /\ readAfterErr = FALSE
  /\ readAfterFail = FALSE
  /\ det = [x \in {"s1", "s2"} |-> [made |-> FALSE]]
  /\ mu = [w \in {"lockedSource", "lockedRNG"} |-> "none"]
  /\ caller = [g \in {"g1", "g2", "g3"} |->
                 [at |-> "idle", w |-> "none", m |-> "none"]]
  /\ sourceMux = [w |-> "none", r |-> {}]
  /\ currentSource = [typ |-> 0, data |-> 0]
  /\ nset = 0
  /\ retSet = 0
  /\ user = [g \in {"g1", "g2", "g3"} |->
               [at |-> "idle", op |-> "none", ver |-> 0, floor |-> 0,
                typ |-> 0, data |-> 0]]
  /\ made = [x \in {"v1", "v2"} |-> 0]
  /\ reads = [x \in {"v1", "v2"} |-> {}]
  /\ via = [g \in {"g1", "g2", "g3"} |-> "none"]
  /\ zipf = [s |-> [k |-> "fin", v |-> 0], v |-> [k |-> "fin", v |-> 0],
             imax |-> 0, cdf |-> <<>>, total |-> 0]

CanCall == pc = "idle"

ResetHistory ==
  /\ draws' = 0
  /\ consumed' = 0
  /\ srcErr' = FALSE
  /\ failErr' = NoErr
  /\ readAfterErr' = FALSE
  /\ readAfterFail' = FALSE

\* the call reaches its first read of the entropy source
Begin(o, g, a, l, b, m) ==
  /\ pc' = "read"
  /\ op' = o /\ gen' = g /\ arg' = a /\ loc' = l
  /\ buf' = b /\ nfill' = 0 /\ mode' = m
  /\ res' = 0 /\ err' = NoErr
  /\ ResetHistory
  /\ UNCHANGED <<zipf, adapterVars>>

\* the call returns without reading the entropy source
Return(o, g, a, b, r, e) ==
  /\ pc' = "done"
  /\ op' = o /\ gen' = g /\ arg' = a /\ loc' = NoLoc
  /\ buf' = b /\ nfill' = 0 /\ mode' = "full"
  /\ res' = r /\ err' = e
  /\ ResetHistory
  /\ UNCHANGED <<zipf, adapterVars>>

\* ---- core.Generator: bytes ---------------------------------------------
\* the error-path zeroing of Generator.Fill
FillBuffer(g, b, e) ==
  IF e # NoErr /\ g = "source" THEN Zeros(Len(b)) ELSE b

\* the caller's buffers: length 0..MaxLen, holding non-zero residue
Dirty(n) == [i \in 1..n |-> 1 + ((i - 1) % (Pow2(ByteBits) - 1))]
Buffers == {Dirty(n) : n \in 0..MaxLen}

Fill(g, b) ==
  /\ CanCall
  /\ IF Len(b) = 0
     THEN Return("Fill", g, NoArg, b, 0, NoErr)
     ELSE Begin("Fill", g, NoArg, NoLoc, b, "full")

Read(g, p) ==
  /\ CanCall
  /\ IF g = "source"
     THEN IF Len(p) = 0
          THEN Return("Read", g, NoArg, p, 0, NoErr)
          ELSE Begin("Read", g, NoArg, NoLoc, p, "full")
     ELSE Begin("Read", g, NoArg, NoLoc, p, "once")

ErrBytesLength(g) == IF g = "source" THEN "ErrNegativeLength" ELSE "ErrInvalidN"

Bytes(g, n) ==
  /\ CanCall
  /\ LET a == [NoArg EXCEPT !.n = n]
     IN IF n < 0 THEN Return("Bytes", g, a, <<>>, <<>>, ErrBytesLength(g))
        ELSE IF n = 0 THEN Return("Bytes", g, a, <<>>, <<>>, NoErr)
        ELSE Begin("Bytes", g, a, NoLoc, Zeros(n), "full")

\* ---- core.Generator: integers and floats -------------------------------
\* limit = maxUint - (maxUint % n)
Uint64nLimit_NoRejection(n) == maxUint64
Uint64nLimit_FirstBucket(n) == n
Uint64nLimit_Zero(n) == 0
Uint64nLimit(n) == maxUint64 - (maxUint64 % n)
Uint64nAccept_Inclusive(u, n) == u <= Uint64nLimit(n)
\* if u < limit
Uint64nAccept(u, n) == u < Uint64nLimit(n)
\* return u % n
Uint64nResult_NoMod(u, n) == u
Uint64nResult(u, n) == u % n

\* u := binary.LittleEndian.Uint64(b[:]) >> 11
Float64Bits_NoShift(b) == LittleEndian(b)
Float64Bits(b) == LittleEndian(b) \div Pow2(DiscardBits)
\* const denom = 1 << 53
FloatDenom == Pow2(WordBits - DiscardBits)

U64nLoc(n) == [NoLoc EXCEPT !.path = "u64n", !.bound = n]

Uint64 ==
  /\ CanCall
  /\ Begin("Uint64", "source", NoArg, NoLoc, Zeros(WordBytes), "full")

Uint64n(n) ==
  /\ CanCall
  /\ LET a == [NoArg EXCEPT !.n = n]
     IN IF n = 0 THEN Return("Uint64n", "source", a, <<>>, 0, "ErrNonPositiveBound")
        ELSE Begin("Uint64n", "source", a, U64nLoc(n), Zeros(WordBytes), "full")

Intn(bits, n) ==
  /\ CanCall
  /\ LET a == [NoArg EXCEPT !.bits = bits, !.n = n]
     IN IF n <= 0 THEN Return("Intn", "source", a, <<>>, 0, "ErrNonPositiveBound")
        ELSE Begin("Intn", "source", a, U64nLoc(ToUint64(n)), Zeros(WordBytes), "full")

Int64n(n) ==
  /\ CanCall
  /\ LET a == [NoArg EXCEPT !.n = n]
     IN IF n <= 0 THEN Return("Int64n", "source", a, <<>>, 0, "ErrNonPositiveBound")
        ELSE Begin("Int64n", "source", a, U64nLoc(ToUint64(n)), Zeros(WordBytes), "full")

Float64 ==
  /\ CanCall
  /\ Begin("Float64", "source", NoArg, NoLoc, Zeros(WordBytes), "full")

Bool ==
  /\ CanCall
  /\ Begin("Bool", "source", NoArg, NoLoc, Zeros(WordBytes), "full")

\* ---- conversions --------------------------------------------------------
Ok(v) == [v |-> v, err |-> NoErr]
Fail(e) == [v |-> 0, err |-> e]

absInt64ToUint64(v) ==
  IF v >= 0 THEN ToUint64(v) ELSE ToUint64(ToUint64(-v - 1) + 1)

uint64ToInt64(n) == IF n > maxInt64 THEN Fail("ErrResultOutOfRange") ELSE Ok(n)

int64ToUint64(n) == IF n < 0 THEN Fail("ErrResultOutOfRange") ELSE Ok(ToUint64(n))

int64ToInt(bits, n) ==
  IF n < minInt(bits) \/ n > maxInt(bits) THEN Fail("ErrResultOutOfRange") ELSE Ok(n)

int64ToInt32(n) ==
  IF n < minInt32 \/ n > maxInt32 THEN Fail("ErrResultOutOfRange") ELSE Ok(n)

NoSpan == [span |-> 0, ok |-> FALSE]

spanInt64(lo, hi) ==
  IF lo > hi THEN NoSpan
  ELSE IF lo >= 0 \/ hi < 0
  THEN LET diff == ToInt64(hi - lo)
           c == int64ToUint64(diff)
       IN IF diff < 0 \/ c.err # NoErr THEN NoSpan
          ELSE [span |-> ToUint64(c.v + 1), ok |-> TRUE]
  ELSE LET absMin == absInt64ToUint64(lo)
           c == int64ToUint64(hi)
       IN IF c.err # NoErr THEN NoSpan
          ELSE IF absMin > maxUint64 - c.v - 1 THEN NoSpan
          ELSE [span |-> ToUint64(absMin + c.v + 1), ok |-> TRUE]

\* the fast-path condition of IntRange / Int64Range
FastPath(lo, hi) ==
  LET s == spanInt64(lo, hi)
  IN s.ok /\ s.span > 0 /\ s.span <= ToUint64(maxInt64) + 1

\* crypto/rand.Int(reader, max): byte count and leading-byte mask
RandIntBytes(max) == (BitLen(max - 1) + ByteBits - 1) \div ByteBits
RandIntMaskBits(max) ==
  IF BitLen(max - 1) % ByteBits = 0 THEN ByteBits ELSE BitLen(max - 1) % ByteBits
RandIntMask(b, max) ==
  [i \in 1..Len(b) |-> IF i = 1 THEN b[1] % Pow2(RandIntMaskBits(max)) ELSE b[i]]

BigLoc(max) == [NoLoc EXCEPT !.path = "bigint", !.bound = max]

\* res.BitLen() > 63
BigOutOfRange(x) == BitLen(Abs(x)) > WordBits - 1

\* the part of each ranged draw that follows the accepted offset
FinishDraw(o, a, l, off) ==
  CASE o = "Uint64n" -> Ok(off)
    [] o = "Intn" ->
         IF off > ToUint64(maxInt(a.bits)) THEN Fail("ErrResultOutOfRange") ELSE Ok(off)
    [] o = "Int64n" ->
         IF off > ToUint64(maxInt64) THEN Fail("ErrResultOutOfRange") ELSE Ok(off)
    [] o = "IntRange" /\ l.path = "u64n" ->
         LET u == uint64ToInt64(off)
         IN IF u.err # NoErr THEN u ELSE int64ToInt(a.bits, ToInt64(a.lo + u.v))
    [] o = "IntRange" /\ l.path = "bigint" ->
         IF BigOutOfRange(off + a.lo) THEN Fail("ErrResultOutOfRange")
         ELSE int64ToInt(a.bits, ToInt64(off + a.lo))
    [] o = "Int32Range" ->
         LET u == uint64ToInt64(off)
         IN IF u.err # NoErr THEN u ELSE int64ToInt32(ToInt64(a.lo + u.v))
    [] o = "Int64Range" /\ l.path = "u64n" ->
         LET u == uint64ToInt64(off)
             r == ToInt64(a.lo + u.v)
         IN IF u.err # NoErr THEN u
            ELSE IF r < a.lo \/ r > a.hi THEN Fail("ErrResultOutOfRange")
            ELSE Ok(r)
    [] o = "Int64Range" /\ l.path = "bigint" ->
         IF BigOutOfRange(off + a.lo) THEN Fail("ErrResultOutOfRange")
         ELSE Ok(ToInt64(off + a.lo))

RangeCall_NoOrderCheck(o, bits, lo, hi) ==
  LET a == [NoArg EXCEPT !.bits = bits, !.lo = lo, !.hi = hi]
      diff == hi - lo + 1
  IN IF lo <= hi /\ FastPath(lo, hi)
     THEN Begin(o, "source", a, U64nLoc(spanInt64(lo, hi).span), Zeros(WordBytes), "full")
     ELSE IF diff <= 0
     THEN Return(o, "source", a, <<>>, 0, "ErrInvalidRangeNonPositive")
     ELSE IF BitLen(diff - 1) = 0
     THEN LET f == FinishDraw(o, a, BigLoc(diff), 0)
          IN Return(o, "source", a, <<>>, f.v, f.err)
     ELSE Begin(o, "source", a, BigLoc(diff), Zeros(RandIntBytes(diff)), "full")
\* the common body of IntRange and Int64Range up to the first draw
RangeCall(o, bits, lo, hi) ==
  LET a == [NoArg EXCEPT !.bits = bits, !.lo = lo, !.hi = hi]
      diff == hi - lo + 1
  IN IF lo > hi
     THEN Return(o, "source", a, <<>>, 0, "ErrMinGreaterThanMax")
     ELSE IF FastPath(lo, hi)
     THEN Begin(o, "source", a, U64nLoc(spanInt64(lo, hi).span), Zeros(WordBytes), "full")
     ELSE IF diff <= 0
     THEN Return(o, "source", a, <<>>, 0, "ErrInvalidRangeNonPositive")
     ELSE IF BitLen(diff - 1) = 0
     THEN LET f == FinishDraw(o, a, BigLoc(diff), 0)
          IN Return(o, "source", a, <<>>, f.v, f.err)
     ELSE Begin(o, "source", a, BigLoc(diff), Zeros(RandIntBytes(diff)), "full")

IntRange(bits, lo, hi) ==
  /\ CanCall
  /\ RangeCall("IntRange", bits, lo, hi)

Int64Range(lo, hi) ==
  /\ CanCall
  /\ RangeCall("Int64Range", WordBits, lo, hi)

Int32Range(lo, hi) ==
  /\ CanCall
  /\ LET a == [NoArg EXCEPT !.lo = lo, !.hi = hi]
         diff == ToInt64(ToInt64(hi - lo) + 1)
     IN IF lo > hi
        THEN Return("Int32Range", "source", a, <<>>, 0, "ErrMinGreaterThanMax")
        ELSE IF diff <= 0
        THEN Return("Int32Range", "source", a, <<>>, 0, "ErrInvalidRangeNonPositive")
        ELSE Begin("Int32Range", "source", a, U64nLoc(ToUint64(diff)), Zeros(WordBytes), "full")

DrawOps == {"Uint64n", "Intn", "Int64n", "IntRange", "Int32Range", "Int64Range"}

\* ---- float parameters ---------------------------------------------------
\* a float64 parameter: a finite integer value, NaN or +Inf
FinW(x) == [k |-> "fin", v |-> x]
NaNW == [k |-> "nan", v |-> 0]
InfW == [k |-> "inf", v |-> 0]
IsNaN(w) == w.k = "nan"
IsInf(w) == w.k = "inf"
\* w < 0, w == 0, w > 0 (every comparison with NaN is false)
IsNeg(w) == w.k = "fin" /\ w.v < 0
IsZero(w) == w.k = "fin" /\ w.v = 0
IsPos(w) == w.k = "inf" \/ (w.k = "fin" /\ w.v > 0)

WeightVals == {FinW(-1), FinW(0), FinW(1), FinW(2), NaNW, InfW}
WeightSeqs == UNION {[1..n -> WeightVals] : n \in 0..MaxItems}

\* sum += w over the first n weights (weights already known not NaN, not negative)
RECURSIVE SumTo(_, _)
SumTo(ws, n) ==
  IF n = 0 THEN FinW(0)
  ELSE LET r == SumTo(ws, n - 1)
       IN IF IsInf(r) \/ IsInf(ws[n]) THEN InfW ELSE FinW(r.v + ws[n].v)

\* ---- collection: weightedSampleWithRNG ---------------------------------
\* math.IsNaN(w) || w < 0 || math.IsInf(w, 0)
InvalidWeight(w) == IsNeg(w) \/ IsNaN(w) \/ IsInf(w)

\* the next index at or after i whose weight is not skipped by `continue`
RECURSIVE NextWeight(_, _)
NextWeight(ws, i) ==
  IF i > Len(ws) THEN i
  ELSE IF IsZero(ws[i]) THEN NextWeight(ws, i + 1)
  ELSE i

\* keys[i].key < keys[j].key with key = -math.Log(u) / w, u = num / FloatDenom
KeyLess(x, y) ==
  Pow(x.u, y.w) * Pow(FloatDenom, x.w) > Pow(y.u, x.w) * Pow(FloatDenom, y.w)

\* sort.Slice on at most 12 elements is an insertion sort
RECURSIVE InsertKey(_, _)
InsertKey(sorted, x) ==
  IF Len(sorted) = 0 THEN <<x>>
  ELSE IF KeyLess(x, sorted[Len(sorted)])
  THEN Append(InsertKey(SubSeq(sorted, 1, Len(sorted) - 1), x), sorted[Len(sorted)])
  ELSE Append(sorted, x)

RECURSIVE SortKeys(_)
SortKeys(ks) ==
  IF Len(ks) = 0 THEN <<>>
  ELSE InsertKey(SortKeys(SubSeq(ks, 1, Len(ks) - 1)), ks[Len(ks)])

SampleScan_FirstKey(a, l, i, b) ==
  LET j == NextWeight(a.ws, i)
      ks == l.keys
  IN IF j > Len(a.ws)
     THEN IF Len(ks) = 0
          THEN [pc |-> "done", res |-> <<>>, err |-> "ErrInvalidWeights", buf |-> b, loc |-> l]
          ELSE IF a.k > Len(ks)
          THEN [pc |-> "done", res |-> <<>>, err |-> "ErrSampleTooLarge", buf |-> b, loc |-> l]
          ELSE [pc |-> "done",
                res |-> [x \in 1..a.k |-> SortKeys(ks)[1].i],
                err |-> NoErr, buf |-> b, loc |-> l]
     ELSE IF InvalidWeight(a.ws[j])
     THEN [pc |-> "done", res |-> <<>>, err |-> "ErrInvalidWeights", buf |-> b, loc |-> l]
     ELSE [pc |-> "read", res |-> 0, err |-> NoErr, buf |-> Zeros(WordBytes),
           loc |-> [l EXCEPT !.i = j]]
\* the loop over weights from index i on, up to the next draw or the return
SampleScan(a, l, i, b) ==
  LET j == NextWeight(a.ws, i)
      ks == l.keys
  IN IF j > Len(a.ws)
     THEN IF Len(ks) = 0
          THEN [pc |-> "done", res |-> <<>>, err |-> "ErrInvalidWeights", buf |-> b, loc |-> l]
          ELSE IF a.k > Len(ks)
          THEN [pc |-> "done", res |-> <<>>, err |-> "ErrSampleTooLarge", buf |-> b, loc |-> l]
          ELSE [pc |-> "done",
                res |-> [x \in 1..a.k |-> SortKeys(ks)[x].i],
                err |-> NoErr, buf |-> b, loc |-> l]
     ELSE IF InvalidWeight(a.ws[j])
     THEN [pc |-> "done", res |-> <<>>, err |-> "ErrInvalidWeights", buf |-> b, loc |-> l]
     ELSE [pc |-> "read", res |-> 0, err |-> NoErr, buf |-> Zeros(WordBytes),
           loc |-> [l EXCEPT !.i = j]]

weightedSampleWithRNG(nitems, ws, k) ==
  /\ CanCall
  /\ LET a == [NoArg EXCEPT !.n = nitems, !.ws = ws, !.k = k]
         s == SampleScan(a, NoLoc, 1, <<>>)
     IN IF k < 0 THEN Return("WeightedSample", "source", a, <<>>, <<>>, "ErrNegativeLength")
        ELSE IF k = 0 THEN Return("WeightedSample", "source", a, <<>>, <<>>, NoErr)
        ELSE IF nitems = 0 THEN Return("WeightedSample", "source", a, <<>>, <<>>, "ErrEmptyItems")
        ELSE IF nitems # Len(ws)
        THEN Return("WeightedSample", "source", a, <<>>, <<>>, "ErrWeightsMismatch")
        ELSE IF k > nitems
        THEN Return("WeightedSample", "source", a, <<>>, <<>>, "ErrSampleTooLarge")
        ELSE IF s.pc = "done" THEN Return("WeightedSample", "source", a, <<>>, s.res, s.err)
        ELSE Begin("WeightedSample", "source", a, s.loc, s.buf, "full")

\* the cumulative walk of weightedChoiceWithRNG for u = num / FloatDenom,
\* then the walk back to the last positive weight; -1: neither returned
WeightedChoicePick(ws, num) ==
  LET sum == SumTo(ws, Len(ws))
      hit == {i \in 1..Len(ws) : num * sum.v < SumTo(ws, i).v * FloatDenom}
      pos == {i \in 1..Len(ws) : IsPos(ws[i])}
  IN IF hit # {} THEN (CHOOSE i \in hit : \A j \in hit : i <= j) - 1
     ELSE IF pos # {} THEN (CHOOSE i \in pos : \A j \in pos : i >= j) - 1
     ELSE -1

\* the result is the index of the chosen item
weightedChoiceWithRNG(nitems, ws) ==
  /\ CanCall
  /\ LET a == [NoArg EXCEPT !.n = nitems, !.ws = ws]
     IN IF nitems = 0 THEN Return("WeightedChoice", "source", a, <<>>, 0, "ErrEmptyItems")
        ELSE IF nitems # Len(ws)
        THEN Return("WeightedChoice", "source", a, <<>>, 0, "ErrWeightsMismatch")
        ELSE IF \E i \in 1..Len(ws) : InvalidWeight(ws[i])
        THEN Return("WeightedChoice", "source", a, <<>>, 0, "ErrInvalidWeights")
        ELSE IF SumTo(ws, Len(ws)).v <= 0
        THEN Return("WeightedChoice", "source", a, <<>>, 0, "ErrInvalidWeights")
        ELSE Begin("WeightedChoice", "source", a, NoLoc, Zeros(WordBytes), "full")

\* ---- collection: sampleWithRNG ------------------------------------------
\* q[i], q[j] = q[j], q[i]
SwapAt(q, i, j) == [q EXCEPT ![i] = q[j], ![j] = q[i]]

SampleStep_NoCopy(st, i, j) == [s |-> SwapAt(st.s, i, j), dup |-> SwapAt(st.dup, i, j)]
\* dup[i], dup[j] = dup[j], dup[i] on the copy of s (1-based here)
SampleStep(st, i, j) == [st EXCEPT !.dup = SwapAt(st.dup, i, j)]

\* Sample(s, k) for the slice s = <<1, ..., n>>; the first Uint64n(n) follows
sampleWithRNG(n, k) ==
  /\ CanCall
  /\ LET s == [i \in 1..n |-> i]
         a == [NoArg EXCEPT !.n = n, !.k = k, !.ws = s]
     IN IF k < 0 THEN Return("Sample", "source", a, <<>>, <<>>, "ErrNegativeLength")
        ELSE IF k = 0 THEN Return("Sample", "source", a, <<>>, <<>>, NoErr)
        ELSE IF k > n THEN Return("Sample", "source", a, <<>>, <<>>, "ErrSampleTooLarge")
        ELSE Begin("Sample", "source", a,
                   [NoLoc EXCEPT !.path = "sample", !.bound = n,
                                 !.keys = [s |-> s, dup |-> s]],
                   Zeros(WordBytes), "full")

\* ---- dist.Generator (built on core.Generator{R: src}) -------------------
ErrWeightsNegative == "weights must be >= 0"
ErrWeightsZeroSum == "at least one weight must be > 0"
ErrLambda == "lambda must be > 0"
ErrAlphaBeta == "alpha and beta must be > 0"

\* the cumulative walk of Categorical for u = num / FloatDenom
CategoricalPick(ws, num) ==
  LET sum == SumTo(ws, Len(ws))
      hit == {i \in 1..Len(ws) : num * sum.v < SumTo(ws, i).v * FloatDenom}
  IN IF IsInf(sum) \/ hit = {} THEN Len(ws) - 1
     ELSE (CHOOSE i \in hit : \A j \in hit : i <= j) - 1

Categorical(ws) ==
  /\ CanCall
  /\ LET a == [NoArg EXCEPT !.ws = ws]
     IN IF \E i \in 1..Len(ws) : IsNaN(ws[i]) \/ IsNeg(ws[i])
        THEN Return("Categorical", "reader", a, <<>>, 0, ErrWeightsNegative)
        ELSE IF IsZero(SumTo(ws, Len(ws)))
        THEN Return("Categorical", "reader", a, <<>>, 0, ErrWeightsZeroSum)
        ELSE Begin("Categorical", "reader", a, NoLoc, Zeros(WordBytes), "full")

ErrMeanStddev == "invalid mean/stddev"
MuVals == {FinW(1), NaNW, InfW}
SigmaVals == {FinW(-1), FinW(0), FinW(1), NaNW}

\* mean + sigma*z with z = r * math.Cos(theta) computed from u1 and u2, which
\* are kept as numerators over 2 * FloatDenom (u1 == 0 is replaced by the
\* smallest nonzero float); a zero sigma leaves the mean (the parameter mu)
NormalValue(mean, sigma, u1, u2) ==
  IF IsZero(sigma) THEN mean
  ELSE [k |-> "normal", v |-> 0, mean |-> mean, sigma |-> sigma,
        u1 |-> IF u1 = 0 THEN 1 ELSE 2 * u1, u2 |-> 2 * u2]

Normal_NoShortcut(mean, sigma) ==
  /\ CanCall
  /\ LET a == [NoArg EXCEPT !.ws = <<mean, sigma>>]
     IN IF IsNaN(mean) \/ IsNaN(sigma) \/ IsNeg(sigma)
        THEN Return("Normal", "reader", a, <<>>, FinW(0), ErrMeanStddev)
        ELSE Begin("Normal", "reader", a, NoLoc, Zeros(WordBytes), "full")
Normal(mean, sigma) ==
  /\ CanCall
  /\ LET a == [NoArg EXCEPT !.ws = <<mean, sigma>>]
     IN IF IsNaN(mean) \/ IsNaN(sigma) \/ IsNeg(sigma)
        THEN Return("Normal", "reader", a, <<>>, FinW(0), ErrMeanStddev)
        ELSE IF IsZero(sigma)
        THEN Return("Normal", "reader", a, <<>>, mean, NoErr)
        ELSE Begin("Normal", "reader", a, NoLoc, Zeros(WordBytes), "full")

\* math.Exp(-lambda) for the modelled lambdas, as a fraction
\* (e^-30 is about 9.4e-14; the table holds 1/1000, which like e^-30 lies
\* below every nonzero product p of up to three draws u >= 1/4, so that
\* p > L is decided as in the code)
ExpNeg(lambda) ==
  CASE lambda = 1 -> [n |-> 368, d |-> 1000]
    [] lambda = 2 -> [n |-> 135, d |-> 1000]
    [] lambda = 30 -> [n |-> 1, d |-> 1000]

LambdaVals == {FinW(-1), FinW(0), FinW(1), FinW(2), FinW(30), NaNW}

\* p > L with p = pn / FloatDenom^pk and L = math.Exp(-lambda)
PoissonContinue(lambda, pn, pk) ==
  /\ ~IsNaN(lambda)
  /\ pn * ExpNeg(lambda.v).d > ExpNeg(lambda.v).n * Pow(FloatDenom, pk)

Poisson(lambda) ==
  /\ CanCall
  /\ LET a == [NoArg EXCEPT !.ws = <<lambda>>]
     IN IF IsNeg(lambda) \/ IsZero(lambda)
        THEN Return("Poisson", "reader", a, <<>>, 0, ErrLambda)
        ELSE IF PoissonContinue(lambda, 1, 0)
        THEN Begin("Poisson", "reader", a, [NoLoc EXCEPT !.path = "knuth"],
                   Zeros(WordBytes), "full")
        ELSE Return("Poisson", "reader", a, <<>>, -1, NoErr)

\* u <= math.Exp(-tn/td) for u = num / FloatDenom, by the [2/2] Pade
\* approximant of exp
LeExpNeg(num, tn, td) ==
  num * (12 * td * td + 6 * tn * td + tn * tn)
    <= FloatDenom * (12 * td * td - 6 * tn * td + tn * tn)

\* v <= math.Pow(-math.Log(u), alpha - 1); e2 is 2 * (alpha - 1)
GammaAccept(u, v, e2) ==
  CASE e2 = 0 -> TRUE
    [] e2 = 2 -> u = 0 \/ LeExpNeg(u, v, FloatDenom)
    [] e2 = 1 -> u = 0 \/ LeExpNeg(u, v * v, FloatDenom * FloatDenom)

\* alpha in halves: 0, 1/2, 1, 2; beta: 0 or 1
AlphaVals == {0, 1, 2, 4}
BetaVals == {0, 1}

Gamma(alpha2, beta) ==
  /\ CanCall
  /\ LET a == [NoArg EXCEPT !.n = alpha2, !.k = beta]
     IN IF alpha2 <= 0 \/ beta <= 0
        THEN Return("Gamma", "reader", a, <<>>, 0, ErrAlphaBeta)
        ELSE IF alpha2 >= 2
        THEN Begin("Gamma", "reader", a, [NoLoc EXCEPT !.path = "rejection", !.bound = alpha2 - 2],
                   Zeros(WordBytes), "full")
        ELSE Begin("Gamma", "reader", a, [NoLoc EXCEPT !.path = "boost", !.bound = alpha2],
                   Zeros(WordBytes), "full")

\* ---- dist.Zipf ------------------------------------------------------------
ErrZipfParams == "randutil: invalid s, v, or imax"
ErrNilZipf == "randutil: nil Zipf rng"

\* the exponents s and offsets v tried; InfW is +Inf
ZipfSVals == {FinW(0), FinW(1), FinW(2), FinW(2000), NaNW, InfW}
ZipfVVals == {FinW(-1), FinW(0), FinW(1), NaNW, InfW}

NilZipf == [s |-> FinW(0), v |-> FinW(0), imax |-> 0, cdf |-> <<>>, total |-> 0]

\* math.Pow(x, -s) is +0 for every float64 x >= 2 once s exceeds 1074 (the
\* smallest positive float64 is 2^-1074), and for s = +Inf
ZipfUnderflow(s) == IsInf(s) \/ s.v > 1074

\* the finite terms (v+k)^-s, k = 1..imax, are held as integers over one
\* common denominator, the product of the (v+j)^s
RECURSIVE ZipfScale(_, _, _)
ZipfScale(s, v, n) ==
  IF IsInf(v) \/ ZipfUnderflow(s) \/ n = 0 THEN 1
  ELSE Pow(v.v + n, s.v) * ZipfScale(s, v, n - 1)

\* math.Pow(z.v+float64(k), -z.s), in units of 1 / ZipfScale(s, v, imax):
\* Pow(+Inf, y) = 0 for y < 0, Pow(1, y) = 1 for every y
ZipfTerm(s, v, k, imax) ==
  IF IsInf(v) THEN 0
  ELSE IF v.v + k = 1 THEN ZipfScale(s, v, imax)
  ELSE IF ZipfUnderflow(s) THEN 0
  ELSE ZipfScale(s, v, imax) \div Pow(v.v + k, s.v)

\* acc after the iterations 1..k of the summing loop
RECURSIVE ZipfAcc(_, _, _, _)
ZipfAcc(s, v, k, imax) ==
  IF k = 0 THEN 0 ELSE ZipfAcc(s, v, k - 1, imax) + ZipfTerm(s, v, k, imax)

\* z.cdf[i] /= z.total: the quotient n / d, and NaN for 0 / 0
ZipfDivide(acc, total) ==
  IF total = 0 THEN [k |-> "nan", n |-> 0, d |-> 1]
  ELSE [k |-> "fin", n |-> acc, d |-> total]

\* Generator.Zipf(s, v, imax): the sampler returned, NilZipf with the error
ZipfBuild(s, v, imax) ==
  IF IsNaN(s) \/ IsNaN(v) \/ IsNeg(s) \/ IsZero(s) \/ IsNeg(v) \/ imax < 1
  THEN NilZipf
  ELSE LET total == ZipfAcc(s, v, imax, imax)
       IN [s |-> s, v |-> v, imax |-> imax, total |-> total,
           cdf |-> [i \in 1..imax |->
                      ZipfDivide(ZipfAcc(s, v, i, imax), total)]]

Zipf(s, v, imax) ==
  /\ CanCall
  /\ zipf' = ZipfBuild(s, v, imax)
  /\ pc' = "done"
  /\ op' = "Zipf" /\ gen' = "source" /\ loc' = NoLoc
  /\ arg' = [NoArg EXCEPT !.ws = <<s, v>>, !.n = imax]
  /\ buf' = <<>> /\ nfill' = 0 /\ mode' = "full"
  /\ res' = 0
  /\ err' = IF ZipfBuild(s, v, imax) = NilZipf THEN ErrZipfParams ELSE NoErr
  /\ ResetHistory
  /\ UNCHANGED adapterVars

\* u <= z.cdf[mid] for u = num / FloatDenom; false when the entry is NaN
ZipfLe(num, c) == c.k = "fin" /\ num * c.d <= c.n * FloatDenom

\* the binary search of Zipf.Next, lo and hi as in the code (from 0)
RECURSIVE ZipfSearch(_, _, _, _)
ZipfSearch(cdf, num, lo, hi) ==
  IF lo < hi
  THEN LET mid == (lo + hi) \div 2
       IN IF ZipfLe(num, cdf[mid + 1])
          THEN ZipfSearch(cdf, num, lo, mid)
          ELSE ZipfSearch(cdf, num, mid + 1, hi)
  ELSE lo

\* Zipf.Next up to its z.rng.Float64(); loc.keys keeps the table the call
\* found in z.cdf
ZipfNext ==
  /\ CanCall
  /\ IF zipf.imax = 0
     THEN Return("Zipf.Next", "source", NoArg, <<>>, 0, ErrNilZipf)
     ELSE Begin("Zipf.Next", "source", NoArg, [NoLoc EXCEPT !.keys = zipf.cdf],
                Zeros(WordBytes), "full")

\* ---- the entropy source and the code that follows each read ------------
\* io.ReadFull's error for n bytes read of want, the source's last error e
ReadFullErr_Raw(n, want, e) == IF n >= want THEN NoErr ELSE e
ReadFullErr(n, want, e) ==
  IF n >= want THEN NoErr
  ELSE IF n > 0 /\ e = EOF THEN ErrUnexpectedEOF
  ELSE e

Done(r, e, b, l) == [pc |-> "done", res |-> r, err |-> e, buf |-> b, loc |-> l]
Again(l, b) == [pc |-> "read", res |-> 0, err |-> NoErr, buf |-> b, loc |-> l]

\* Uint64n's loop body after g.Uint64() returned (u, e)
ResumeUint64n_Retry(e, b) ==
  LET u == LittleEndian(b)
      off == Uint64nResult(u, loc.bound)
      f == FinishDraw(op, arg, loc, off)
  IN IF e = NoErr /\ Uint64nAccept(u, loc.bound)
     THEN Done(f.v, f.err, <<>>, [loc EXCEPT !.raw = u, !.off = off])
     ELSE Again([loc EXCEPT !.raw = u], Zeros(WordBytes))
ResumeUint64n(e, b) ==
  LET u == LittleEndian(b)
      off == Uint64nResult(u, loc.bound)
      f == FinishDraw(op, arg, loc, off)
  IN IF e # NoErr THEN Done(0, e, <<>>, NoLoc)
     ELSE IF Uint64nAccept(u, loc.bound)
     THEN Done(f.v, f.err, <<>>, [loc EXCEPT !.raw = u, !.off = off])
     ELSE Again([loc EXCEPT !.raw = u], Zeros(WordBytes))

\* crypto/rand.Int's loop body after io.ReadFull returned e
ResumeBigInt(e, b) ==
  LET mb == RandIntMask(b, loc.bound)
      n == SetBytes(mb)
      f == FinishDraw(op, arg, loc, n)
  IN IF e # NoErr THEN Done(0, e, <<>>, NoLoc)
     ELSE IF n < loc.bound
     THEN Done(f.v, f.err, <<>>, [loc EXCEPT !.raw = n, !.off = n])
     ELSE Again(loc, Zeros(Len(b)))

ResumeWeightedSample(e, b) ==
  LET u == Float64Bits(b)
      key == [u |-> u, w |-> arg.ws[loc.i].v, i |-> loc.i]
  IN IF e # NoErr THEN Done(<<>>, e, <<>>, NoLoc)
     ELSE IF u > 0
     THEN SampleScan(arg, [loc EXCEPT !.keys = Append(loc.keys, key)], loc.i + 1, <<>>)
     ELSE Again(loc, Zeros(WordBytes))

ResumePoisson(e, b) ==
  LET pn == loc.pn * Float64Bits(b)
      pk == loc.pk + 1
  IN IF e # NoErr THEN Done(0, e, <<>>, NoLoc)
     ELSE IF PoissonContinue(arg.ws[1], pn, pk)
     THEN Again([loc EXCEPT !.pn = pn, !.pk = pk], Zeros(WordBytes))
     ELSE Done(pk - 1, NoErr, <<>>, [loc EXCEPT !.pn = pn, !.pk = pk])

\* Gamma after a Float64 draw: the boost draw, then gammaRejection's u and v
ResumeGamma(e, b) ==
  LET f == Float64Bits(b)
  IN IF e # NoErr THEN Done(0, e, <<>>, NoLoc)
     ELSE IF loc.path = "boost"
     THEN Again([loc EXCEPT !.path = "rejection", !.off = f, !.phase = 0], Zeros(WordBytes))
     ELSE IF loc.phase = 0
     THEN Again([loc EXCEPT !.u = f, !.phase = 1], Zeros(WordBytes))
     ELSE IF GammaAccept(loc.u, f, loc.bound)
     THEN Done([x |-> loc.u, beta |-> arg.k, boost |-> loc.off], NoErr, <<>>, loc)
     ELSE Again([loc EXCEPT !.u = 0, !.phase = 0], Zeros(WordBytes))

\* sampleWithRNG's loop body after rng.Uint64n's g.Uint64() returned (u, e);
\* loc.i is the loop index, loc.bound is n - i
ResumeSample(e, b) ==
  LET u == LittleEndian(b)
      j == Uint64nResult(u, loc.bound) + loc.i
      st == SampleStep(loc.keys, loc.i + 1, j + 1)
      i2 == loc.i + 1
  IN IF e # NoErr THEN Done(<<>>, e, <<>>, NoLoc)
     ELSE IF ~Uint64nAccept(u, loc.bound) THEN Again(loc, Zeros(WordBytes))
     ELSE IF i2 < arg.k
     THEN Again([loc EXCEPT !.keys = st, !.i = i2, !.bound = arg.n - i2],
                Zeros(WordBytes))
     ELSE Done(SubSeq(st.dup, 1, arg.k), NoErr, <<>>,
               [loc EXCEPT !.keys = st, !.i = i2, !.raw = u])

\* Normal after each of its two Float64 draws
ResumeNormal(e, b) ==
  LET f == Float64Bits(b)
  IN IF e # NoErr THEN Done(FinW(0), e, <<>>, NoLoc)
     ELSE IF loc.phase = 0
     THEN Again([loc EXCEPT !.u = f, !.phase = 1], Zeros(WordBytes))
     ELSE Done(NormalValue(arg.ws[1], arg.ws[2], loc.u, f), NoErr, <<>>,
               [loc EXCEPT !.off = f])

\* Zipf.Next after z.rng.Float64() returned (u, e)
ResumeZipfNext(e, b) ==
  LET f == Float64Bits(b)
  IN IF e # NoErr THEN Done(0, e, <<>>, loc)
     ELSE Done(ZipfSearch(zipf.cdf, f, 0, Len(zipf.cdf) - 1) + 1, NoErr, <<>>,
               [loc EXCEPT !.u = f])

\* the rest of the operation once its read returned n bytes and error e
Resume(n, e, b) ==
  CASE op = "Fill" -> Done(0, e, FillBuffer(gen, b, e), loc)
    [] op = "Read" -> Done(n, e, b, loc)
    [] op = "Bytes" ->
         Done(IF e # NoErr THEN <<>> ELSE b, e, FillBuffer(gen, b, e), loc)
    [] op = "Uint64" ->
         IF e # NoErr THEN Done(0, e, <<>>, NoLoc)
         ELSE Done(LittleEndian(b), e, <<>>, [loc EXCEPT !.raw = LittleEndian(b)])
    [] op = "Float64" ->
         IF e # NoErr THEN Done(0, e, <<>>, NoLoc)
         ELSE Done(Float64Bits(b), e, <<>>, [loc EXCEPT !.raw = LittleEndian(b)])
    [] op = "Bool" ->
         IF e # NoErr THEN Done(FALSE, e, <<>>, NoLoc)
         ELSE Done(LittleEndian(b) % 2 = 1, e, <<>>, [loc EXCEPT !.raw = LittleEndian(b)])
    [] op \in DrawOps /\ loc.path = "u64n" -> ResumeUint64n(e, b)
    [] op \in DrawOps /\ loc.path = "bigint" -> ResumeBigInt(e, b)
    [] op = "WeightedSample" -> ResumeWeightedSample(e, b)
    [] op = "Sample" -> ResumeSample(e, b)
    [] op = "WeightedChoice" ->
         IF e # NoErr THEN Done(0, e, <<>>, NoLoc)
         ELSE LET i == WeightedChoicePick(arg.ws, Float64Bits(b))
              IN Done(IF i < 0 THEN 0 ELSE i,
                      IF i < 0 THEN "ErrInvalidWeights" ELSE e, <<>>,
                      [loc EXCEPT !.u = Float64Bits(b)])
    [] op = "Categorical" ->
         IF e # NoErr THEN Done(0, e, <<>>, NoLoc)
         ELSE Done(CategoricalPick(arg.ws, Float64Bits(b)), e, <<>>,
                   [loc EXCEPT !.u = Float64Bits(b)])
    [] op = "Normal" -> ResumeNormal(e, b)
    [] op = "Poisson" -> ResumePoisson(e, b)
    [] op = "Gamma" -> ResumeGamma(e, b)
    [] op = "Zipf.Next" -> ResumeZipfNext(e, b)

\* Fill, Read and Bytes write into a slice that outlives the read; every
\* other operation reads into a local array that it inspects only after a
\* complete read, so the bytes of that array are drawn when the read completes
CallerBuffer == op \in {"Fill", "Read", "Bytes"}

\* the contents of buf after a Read that brought it from nfill to n2 bytes
Written(n2) ==
  IF CallerBuffer
  THEN {b \in [1..Len(buf) -> Byte] :
          \A i \in 1..Len(buf) : (i <= nfill \/ i > n2) => b[i] = buf[i]}
  ELSE IF n2 >= Len(buf) THEN [1..Len(buf) -> Byte]
  ELSE {buf}

\* one Read call on the entropy source: it writes nn bytes and returns (nn, e)
SourceRead ==
  /\ pc = "read"
  /\ \E nn \in 0..(Len(buf) - nfill), e \in {NoErr} \cup SrcErrs :
       \E b2 \in Written(nfill + nn) :
         LET n2 == nfill + nn
             returns == mode = "once" \/ n2 >= Len(buf) \/ e # NoErr
             rfErr == IF mode = "once" THEN e ELSE ReadFullErr(n2, Len(buf), e)
             nx == Resume(n2, rfErr, b2)
             again == IF returns THEN nx.pc = "read" ELSE TRUE
             failed == e # NoErr /\ (mode = "once" \/ n2 < Len(buf))
         IN /\ nn = 0 => (e # NoErr \/ Len(buf) = 0)
            /\ (returns /\ again) => draws + 1 < MaxDraws
            /\ draws' = IF returns THEN draws + 1 ELSE draws
            /\ consumed' = consumed + nn
            /\ srcErr' = (srcErr \/ e # NoErr)
            /\ readAfterErr' = (readAfterErr \/ (again /\ (srcErr \/ e # NoErr)))
            /\ failErr' = IF failed THEN e ELSE failErr
            /\ readAfterFail' = (readAfterFail \/ (again /\ (failErr # NoErr \/ failed)))
            /\ IF returns
               THEN /\ pc' = nx.pc
                    /\ res' = nx.res
                    /\ err' = nx.err
                    /\ loc' = nx.loc
                    /\ buf' = nx.buf
                    /\ nfill' = IF nx.pc = "read" THEN 0 ELSE n2
               ELSE /\ buf' = b2
                    /\ nfill' = n2
                    /\ UNCHANGED <<pc, res, err, loc>>
            /\ UNCHANGED <<op, gen, arg, mode>>
            /\ UNCHANGED <<zipf, adapterVars>>

\* the caller has taken the result; the generator is ready for the next call
Returned ==
  /\ pc = "done"
  /\ pc' = "idle"
  /\ gen' = "source" /\ arg' = NoArg /\ loc' = NoLoc
  /\ buf' = <<>> /\ nfill' = 0 /\ mode' = "full"
  /\ res' = 0 /\ err' = NoErr
  /\ ResetHistory
  /\ UNCHANGED <<zipf, adapterVars>>
  /\ UNCHANGED op

\* ---- specification ------------------------------------------------------
RangeVals(bits) ==
  LET mx == Pow2(bits - 1) - 1
      mn == -mx - 1
  IN {mn, -1, 0, 1, mx}

\* bounds n of Uint64n, Intn and Int64n: around zero and around the type's maximum
BoundVals(mx) ==
  {-1, 0, 1, 2, 3, mx \div 2, (mx \div 2) + 1, mx - 1, mx} \cap (-1..mx)

Next ==
  \/ \E g \in Gens, b \in Buffers : Fill(g, b)
  \/ \E g \in Gens, p \in Buffers : Read(g, p)
  \/ \E g \in Gens, n \in -1..MaxLen : Bytes(g, n)
  \/ Uint64
  \/ \E n \in BoundVals(maxUint64) \cap Word : Uint64n(n)
  \/ \E bits \in IntSizes : \E n \in BoundVals(maxInt(bits)) : Intn(bits, n)
  \/ \E n \in BoundVals(maxInt64) : Int64n(n)
  \/ Float64
  \/ Bool
  \/ \E bits \in IntSizes : \E lo \in RangeVals(bits), hi \in RangeVals(bits) :
       IntRange(bits, lo, hi)
  \/ \E lo \in RangeVals(HalfBits), hi \in RangeVals(HalfBits) : Int32Range(lo, hi)
  \/ \E lo \in RangeVals(WordBits), hi \in RangeVals(WordBits) : Int64Range(lo, hi)
  \/ \E n \in 0..MaxItems, ws \in WeightSeqs, k \in -1..(MaxItems + 1) :
       weightedSampleWithRNG(n, ws, k)
  \/ \E n \in 0..MaxItems, k \in -1..(MaxItems + 1) : sampleWithRNG(n, k)
  \/ \E n \in 0..MaxItems, ws \in WeightSeqs : weightedChoiceWithRNG(n, ws)
  \/ \E ws \in WeightSeqs : Categorical(ws)
  \/ \E mean \in MuVals, sigma \in SigmaVals : Normal(mean, sigma)
  \/ \E lambda \in LambdaVals : Poisson(lambda)
  \/ \E alpha2 \in AlphaVals, beta \in BetaVals : Gamma(alpha2, beta)
  \/ SourceRead
  \/ Returned

Spec == Init /\ [][Next]_vars

\* a program that builds Zipf samplers and draws from the one built last
ZipfCalls ==
  \/ \E s \in ZipfSVals, v \in ZipfVVals, imax \in 0..MaxSupport : Zipf(s, v, imax)
  \/ ZipfNext
  \/ SourceRead
  \/ Returned

ZipfSpec == Init /\ [][ZipfCalls]_vars

\* ---- adapters: deterministic source -------------------------------------
\* seeds and labels: byte strings over two letters, of length 0..MaxSeedLen;
\* the labels use one letter
SeedLetters == {1, 2}
LabelLetters == {1}
Seeds == UNION {[1..n -> SeedLetters] : n \in 1..MaxSeedLen}
Labels == UNION {[1..n -> LabelLetters] : n \in 0..MaxSeedLen}
DetSources == {"s1", "s2"}

\* the fixed strings hashed in front of label and seed
PrefixSource == <<10>>
PrefixLabel == <<10, 13>>
TagKey == <<11>>
TagNonce == <<12>>

\* sha256 of the written bytes: the hash is taken to be free of collisions,
\* so a digest is the bracketed input it was computed from
Sha256(written) == <<20>> \o written \o <<21>>

\* h.Write(prefix); h.Write([]byte(label)); h.Write(seed)
deriveKey(seed, tag) == Sha256(PrefixSource \o tag \o seed)
deriveLabelSeed(seed, label) == Sha256(PrefixLabel \o label \o seed)

\* the seed the cipher is keyed from
DerivedSeed(seed, label) ==
  IF label = <<>> THEN seed ELSE deriveLabelSeed(seed, label)

deterministicSourceFromSeed(seed) ==
  [made |-> TRUE, key |-> deriveKey(seed, TagKey), nonce |-> deriveKey(seed, TagNonce),
   pos |-> 0, calls |-> <<>>, out |-> <<>>]

RECURSIVE SumSeq(_)
SumSeq(q) == IF Len(q) = 0 THEN 0 ELSE q[1] + SumSeq(Tail(q))

\* byte i of the ChaCha20 key stream of (key, nonce): a fixed function of
\* the three
KeyStreamByte(key, nonce, i) ==
  (SumSeq(key) * i + SumSeq(nonce) + Len(key) * i * i) % Pow2(ByteBits)

\* p zeroed and XORed with the next len(p) bytes of the key stream
XORKeyStream(d, n) == [i \in 1..n |-> KeyStreamByte(d.key, d.nonce, d.pos + i)]

DeterministicSourceWithLabel_Salted(x, seed, label) ==
  /\ ~det[x].made
  /\ det' = [det EXCEPT ![x] =
               deterministicSourceFromSeed(
                 DerivedSeed(seed, label) \o (IF x = "s1" THEN <<1>> ELSE <<2>>))
                 @@ [seed |-> seed, label |-> label]]
  /\ UNCHANGED <<coreVars, bindVars, lockVars, globalVars>>
DeterministicSourceWithLabel(x, seed, label) ==
  /\ ~det[x].made
  /\ det' = [det EXCEPT ![x] =
               deterministicSourceFromSeed(DerivedSeed(seed, label))
                 @@ [seed |-> seed, label |-> label]]
  /\ UNCHANGED <<coreVars, bindVars, lockVars, globalVars>>

\* deterministicSource.Read(p) with len(p) = n, called directly ("Read") or
\* by Generator.Uint64 through io.ReadFull ("Uint64"): it always fills p
DetRead(x, call) ==
  LET d == det[x]
      n == IF call = "Uint64" THEN WordBytes ELSE 1
      p == XORKeyStream(d, n)
      r == IF call = "Uint64" THEN LittleEndian(p) ELSE p
  IN /\ d.made
     /\ Len(d.calls) < MaxCalls
     /\ det' = [det EXCEPT ![x] =
                  [d EXCEPT !.pos = d.pos + n, !.calls = Append(d.calls, call),
                            !.out = Append(d.out, r)]]
     /\ UNCHANGED <<coreVars, bindVars, lockVars, globalVars>>

DetNext ==
  \/ \E x \in DetSources, seed \in Seeds, label \in Labels :
       DeterministicSourceWithLabel(x, seed, label)
  \/ \E x \in DetSources, call \in {"Read", "Uint64"} : DetRead(x, call)

DetSpec == Init /\ [][DetNext]_vars

\* ---- adapters: LockedSource and LockedRNG --------------------------------
Goroutines == {"g1", "g2", "g3"}
Wrappers == {"lockedSource", "lockedRNG"}

\* the methods of each wrapper; every one locks, defers the unlock and
\* delegates to the wrapped object
Methods(w) ==
  IF w = "lockedSource"
  THEN {"Read"}
  ELSE {"Read", "Fill", "Bytes", "Uint64", "Uint64n", "Intn", "Int64n",
        "IntRange", "Int32Range", "Int64Range", "Float64", "Bool"}

NoCall == [at |-> "idle", w |-> "none", m |-> "none"]

\* goroutine g calls method m of wrapper w
LockedCall(g, w, m) ==
  /\ caller[g].at = "idle"
  /\ caller' = [caller EXCEPT ![g] = [at |-> "lock", w |-> w, m |-> m]]
  /\ UNCHANGED <<mu, coreVars, bindVars, detVars, globalVars>>

Lock_NoWait(g) ==
  /\ caller[g].at = "lock"
  /\ mu' = [mu EXCEPT ![caller[g].w] = g]
  /\ caller' = [caller EXCEPT ![g].at = "locked"]
  /\ UNCHANGED <<coreVars, bindVars, detVars, globalVars>>
\* l.mu.Lock(): blocks while another goroutine holds the mutex
Lock(g) ==
  /\ caller[g].at = "lock"
  /\ mu[caller[g].w] = "none"
  /\ mu' = [mu EXCEPT ![caller[g].w] = g]
  /\ caller' = [caller EXCEPT ![g].at = "locked"]
  /\ UNCHANGED <<coreVars, bindVars, detVars, globalVars>>

\* the call into the wrapped source or RNG starts
Delegate(g) ==
  /\ caller[g].at = "locked"
  /\ caller' = [caller EXCEPT ![g].at = "inner"]
  /\ UNCHANGED <<mu, coreVars, bindVars, detVars, globalVars>>

\* the wrapped call returns; the deferred unlock is still to run
DelegateReturn(g) ==
  /\ caller[g].at = "inner"
  /\ caller' = [caller EXCEPT ![g].at = "unlock"]
  /\ UNCHANGED <<mu, coreVars, bindVars, detVars, globalVars>>

\* defer l.mu.Unlock(), then the method returns
Unlock(g) ==
  /\ caller[g].at = "unlock"
  /\ mu' = [mu EXCEPT ![caller[g].w] = "none"]
  /\ caller' = [caller EXCEPT ![g] = NoCall]
  /\ UNCHANGED <<coreVars, bindVars, detVars, globalVars>>

\* goroutines with a call into the object wrapped by w in progress
InWrapped(w) == {g \in Goroutines : caller[g].at = "inner" /\ caller[g].w = w}

LockNext ==
  \/ \E g \in Goroutines, w \in Wrappers : \E m \in Methods(w) : LockedCall(g, w, m)
  \/ \E g \in Goroutines : Lock(g)
  \/ \E g \in Goroutines : Delegate(g)
  \/ \E g \in Goroutines : DelegateReturn(g)
  \/ \E g \in Goroutines : Unlock(g)

LockSpec == Init /\ [][LockNext]_vars

\* ---- core: the process-wide default source ------------------------------
\* An io.Reader is an interface value of two words, its type and its data
\* pointer, stored and loaded one word at a time.  The k-th assignment to
\* currentSource writes k in both words; 0 is the initial rand.Reader.
NoUse == [at |-> "idle", op |-> "none", ver |-> 0, floor |-> 0,
          typ |-> 0, data |-> 0]

\* assignments called for but not yet started
PendingSets == {g \in Goroutines : user[g].at = "lock"}

\* SetSource(r): a nil r returns at once
SetSource(g, r) ==
  /\ user[g].at = "idle"
  /\ r # "nil" => nset + Cardinality(PendingSets) < MaxSets
  /\ user' = [user EXCEPT ![g] =
                [NoUse EXCEPT !.at = IF r = "nil" THEN "ret" ELSE "lock",
                              !.op = "SetSource"]]
  /\ UNCHANGED <<sourceMux, currentSource, nset, retSet,
                 coreVars, bindVars, detVars, lockVars>>

ResetSource(g) ==
  /\ user[g].at = "idle"
  /\ nset + Cardinality(PendingSets) < MaxSets
  /\ user' = [user EXCEPT ![g] =
                [NoUse EXCEPT !.at = "lock", !.op = "ResetSource"]]
  /\ UNCHANGED <<sourceMux, currentSource, nset, retSet,
                 coreVars, bindVars, detVars, lockVars>>

\* sourceMux.Lock(): waits for the writer and for every reader to leave
WLock(g) ==
  /\ user[g].at = "lock"
  /\ sourceMux.w = "none" /\ sourceMux.r = {}
  /\ sourceMux' = [sourceMux EXCEPT !.w = g]
  /\ nset' = nset + 1
  /\ user' = [user EXCEPT ![g].at = "store", ![g].ver = nset + 1]
  /\ UNCHANGED <<currentSource, retSet, coreVars, bindVars, detVars, lockVars>>

\* currentSource = r, first word
StoreTyp(g) ==
  /\ user[g].at = "store"
  /\ currentSource' = [currentSource EXCEPT !.typ = user[g].ver]
  /\ user' = [user EXCEPT ![g].at = "store2"]
  /\ UNCHANGED <<sourceMux, nset, retSet, coreVars, bindVars, detVars, lockVars>>

\* currentSource = r, second word
StoreData(g) ==
  /\ user[g].at = "store2"
  /\ currentSource' = [currentSource EXCEPT !.data = user[g].ver]
  /\ user' = [user EXCEPT ![g].at = "wunlock"]
  /\ UNCHANGED <<sourceMux, nset, retSet, coreVars, bindVars, detVars, lockVars>>

\* sourceMux.Unlock()
WUnlock(g) ==
  /\ user[g].at = "wunlock"
  /\ sourceMux' = [sourceMux EXCEPT !.w = "none"]
  /\ user' = [user EXCEPT ![g].at = "ret"]
  /\ UNCHANGED <<currentSource, nset, retSet, coreVars, bindVars, detVars, lockVars>>

\* SetSource / ResetSource returns to its caller
SetReturn(g) ==
  /\ user[g].at = "ret"
  /\ retSet' = IF user[g].ver > retSet THEN user[g].ver ELSE retSet
  /\ user' = [user EXCEPT ![g] = NoUse]
  /\ UNCHANGED <<sourceMux, currentSource, nset, coreVars, bindVars, detVars, lockVars>>

\* GetSource() or Reader().Read(p) starts; floor remembers the latest
\* assignment whose call had returned by then
GetSource(g, o) ==
  /\ user[g].at = "idle"
  /\ user' = [user EXCEPT ![g] =
                [NoUse EXCEPT !.at = "rlock", !.op = o, !.floor = retSet]]
  /\ UNCHANGED <<sourceMux, currentSource, nset, retSet,
                 coreVars, bindVars, detVars, lockVars>>

RLock_NoWait(g) ==
  /\ user[g].at = "rlock"
  /\ sourceMux' = [sourceMux EXCEPT !.r = @ \cup {g}]
  /\ user' = [user EXCEPT ![g].at = "load"]
  /\ UNCHANGED <<currentSource, nset, retSet, coreVars, bindVars, detVars, lockVars>>
\* sourceMux.RLock(): waits for the writer to leave
RLock(g) ==
  /\ user[g].at = "rlock"
  /\ sourceMux.w = "none"
  /\ sourceMux' = [sourceMux EXCEPT !.r = @ \cup {g}]
  /\ user' = [user EXCEPT ![g].at = "load"]
  /\ UNCHANGED <<currentSource, nset, retSet, coreVars, bindVars, detVars, lockVars>>

\* r := currentSource, first word
LoadTyp(g) ==
  /\ user[g].at = "load"
  /\ user' = [user EXCEPT ![g].at = "load2", ![g].typ = currentSource.typ]
  /\ UNCHANGED <<sourceMux, currentSource, nset, retSet,
                 coreVars, bindVars, detVars, lockVars>>

\* r := currentSource, second word
LoadData(g) ==
  /\ user[g].at = "load2"
  /\ user' = [user EXCEPT ![g].at = "runlock", ![g].data = currentSource.data]
  /\ UNCHANGED <<sourceMux, currentSource, nset, retSet,
                 coreVars, bindVars, detVars, lockVars>>

\* sourceMux.RUnlock()
RUnlock(g) ==
  /\ user[g].at = "runlock"
  /\ sourceMux' = [sourceMux EXCEPT !.r = @ \ {g}]
  /\ user' = [user EXCEPT ![g].at = "use"]
  /\ UNCHANGED <<currentSource, nset, retSet, coreVars, bindVars, detVars, lockVars>>

\* return r (GetSource) or return r.Read(p) (readerProxy.Read)
UseSource(g) ==
  /\ user[g].at = "use"
  /\ user' = [user EXCEPT ![g] = NoUse]
  /\ via' = [via EXCEPT ![g] = "none"]
  /\ reads' = IF via[g] = "none" THEN reads
              ELSE [reads EXCEPT ![via[g]] = @ \cup {user[g].data}]
  /\ UNCHANGED <<sourceMux, currentSource, nset, retSet, made,
                 coreVars, detVars, lockVars>>

GlobalNext ==
  \/ \E g \in Goroutines, r \in {"nil", "fake"} : SetSource(g, r)
  \/ \E g \in Goroutines : ResetSource(g)
  \/ \E g \in Goroutines : WLock(g)
  \/ \E g \in Goroutines : StoreTyp(g)
  \/ \E g \in Goroutines : StoreData(g)
  \/ \E g \in Goroutines : WUnlock(g)
  \/ \E g \in Goroutines : SetReturn(g)
  \/ \E g \in Goroutines, o \in {"GetSource", "Read"} : GetSource(g, o)
  \/ \E g \in Goroutines : RLock(g)
  \/ \E g \in Goroutines : LoadTyp(g)
  \/ \E g \in Goroutines : LoadData(g)
  \/ \E g \in Goroutines : RUnlock(g)
  \/ \E g \in Goroutines : UseSource(g)

GlobalSpec == Init /\ [][GlobalNext]_vars

\* ---- core.Generator: the source a Generator reads -----------------------
\* "v1": Generator{R io.Reader}; "v2": Generator{src Source}
Generators == {"v1", "v2"}

\* sources other than the values of currentSource (which are 0..MaxSets):
\* no source, the one passed to New, crypto/rand.Reader used directly
NilSource == 0 - 3
OwnSource == 0 - 1
CryptoRand == 0 - 2

\* New(src): the v1 constructor keeps a nil R, the v2 constructor replaces
\* a nil src by crypto/rand.Reader
New(x, src) ==
  /\ made[x] = 0
  /\ made' = [made EXCEPT ![x] =
                IF src = NilSource /\ x = "v2" THEN CryptoRand ELSE src]
  /\ UNCHANGED <<reads, via, coreVars, detVars, lockVars, globalVars>>

reader_Default(x) == NilSource
\* g.reader() / g.source(): the source field, NilSource standing for the
\* Reader() proxy
reader(x) == made[x]

\* one read of the entropy source by Generator x on goroutine g: directly
\* from its own source, or through Reader(), whose Read starts here
GeneratorRead(g, x) ==
  /\ made[x] # 0
  /\ user[g].at = "idle"
  /\ IF reader(x) = NilSource
     THEN /\ user' = [user EXCEPT ![g] =
                        [NoUse EXCEPT !.at = "rlock", !.op = "Read", !.floor = retSet]]
          /\ via' = [via EXCEPT ![g] = x]
          /\ UNCHANGED reads
     ELSE /\ reads' = [reads EXCEPT ![x] = @ \cup {reader(x)}]
          /\ UNCHANGED <<user, via>>
  /\ UNCHANGED <<made, sourceMux, currentSource, nset, retSet,
                 coreVars, detVars, lockVars>>

BindNext ==
  \/ \E x \in Generators, src \in {NilSource, OwnSource} : New(x, src)
  \/ \E g \in Goroutines, x \in Generators : GeneratorRead(g, x)
  \/ \E g \in Goroutines : SetSource(g, "fake")
  \/ \E g \in Goroutines : ResetSource(g)
  \/ \E g \in Goroutines : WLock(g)
  \/ \E g \in Goroutines : StoreTyp(g)
  \/ \E g \in Goroutines : StoreData(g)
  \/ \E g \in Goroutines : WUnlock(g)
  \/ \E g \in Goroutines : SetReturn(g)
  \/ \E g \in Goroutines : RLock(g)
  \/ \E g \in Goroutines : LoadTyp(g)
  \/ \E g \in Goroutines : LoadData(g)
  \/ \E g \in Goroutines : RUnlock(g)
  \/ \E g \in Goroutines : UseSource(g)

BindSpec == Init /\ [][BindNext]_vars

\* ---- properties ---------------------------------------------------------
\* C1: for every n > 0 and every byte sequence the source delivers, a
\* successful Uint64n(n) returns a value v with 0 <= v < n
C1_Uint64nInRange ==
  (pc = "done" /\ op = "Uint64n" /\ err = NoErr) =>
    (arg.n > 0 /\ res >= 0 /\ res < arg.n)

\* a redraw happened and the largest value n - 1 was returned
C1_Witness ==
  /\ pc = "done" /\ op = "Uint64n" /\ err = NoErr
  /\ draws > 1 /\ arg.n > 2 /\ res = arg.n - 1

\* C2: Uint64n(n) is exactly uniform: the acceptance limit is a multiple of
\* n, and the returned result is produced by exactly limit / n of the raw
\* draws below the limit, the accepted raw draw being one of them
C2_Uint64nUniform ==
  (pc = "done" /\ op = "Uint64n" /\ err = NoErr) =>
    LET n == arg.n
        same == {u \in Word : Uint64nAccept(u, n) /\ Uint64nResult(u, n) = res}
    IN /\ Uint64nLimit(n) % n = 0
       /\ loc.raw \in same
       /\ Cardinality(same) = Uint64nLimit(n) \div n

\* a bound that does not divide the number of raw values, after a rejection
C2_Witness ==
  /\ pc = "done" /\ op = "Uint64n" /\ err = NoErr
  /\ (maxUint64 + 1) % arg.n # 0 /\ draws > 1 /\ res = 0

\* C3: for all min <= max the inclusive range draw returns a value in
\* [min, max] whenever the entropy source does not fail
C3_RangeAlwaysInRange ==
  (pc = "done" /\ op \in {"Int64Range", "IntRange"} /\ arg.lo <= arg.hi /\ ~srcErr) =>
    (err = NoErr /\ res >= arg.lo /\ res <= arg.hi)

\* C4: IntRange, Int32Range, Intn and Int64n fail with ResultOutOfRange when
\* min + offset is not representable in the requested width and otherwise
\* return exactly min + offset
C4_ExactOrOutOfRange ==
  (pc = "done" /\ op \in {"IntRange", "Int32Range", "Intn", "Int64n"} /\ loc.path # "") =>
    LET exact == arg.lo + loc.off
        bits == CASE op = "Int32Range" -> HalfBits
                  [] op = "Int64n" -> WordBits
                  [] OTHER -> arg.bits
    IN IF exact >= minInt(bits) /\ exact <= maxInt(bits)
       THEN err = NoErr /\ res = exact
       ELSE err = "ErrResultOutOfRange"

\* C5: a successful Float64 is the top WordBits - DiscardBits bits of one
\* WordBytes-byte draw over FloatDenom, so it lies in [0, 1)
C5_Float64UnitInterval ==
  (pc = "done" /\ op = "Float64" /\ err = NoErr) =>
    /\ draws = 1 /\ consumed = WordBytes
    /\ res = loc.raw \div Pow2(DiscardBits)
    /\ res >= 0 /\ res < FloatDenom

\* the largest float: every kept bit of the draw is set
C5_Witness ==
  /\ pc = "done" /\ op = "Float64" /\ err = NoErr
  /\ loc.raw = maxUint64 /\ res = FloatDenom - 1

\* C6: when the source fails during Fill(b), also after part of b was
\* written, every byte of b is zero when the error is returned
C6_FillZeroesOnError ==
  (pc = "done" /\ op = "Fill" /\ err # NoErr) => buf = Zeros(Len(buf))

\* C7: Read, Fill and Bytes never report success with a partially filled
\* buffer: after a short read without error the Generator keeps reading
C7_FullBufferOrError ==
  (pc = "done" /\ op \in {"Read", "Fill", "Bytes"} /\ err = NoErr) =>
    (nfill = Len(buf) /\ consumed = Len(buf))

C9_NoReadAfterSourceError == ~readAfterErr

\* C9 (amended): once a read of the source has failed, that is the source
\* returned an error before the buffer was full, the operation issues no
\* further read; loops redraw only after a draw that io.ReadFull completed
C9_NoReadAfterFailedRead == ~readAfterFail

\* a rejection loop stopped by a failed read on its second draw
C9_Witness ==
  /\ pc = "done" /\ op \in {"Uint64n", "WeightedSample", "Gamma"}
  /\ draws > 1 /\ failErr # NoErr /\ err # NoErr /\ ~readAfterFail

\* C10: a sampler or weighted-selection call that returns a
\* parameter-validation error has consumed no byte of entropy
C10_ValidationBeforeEntropy ==
  LET validation ==
        {"ErrNegativeLength", "ErrEmptyItems", "ErrWeightsMismatch",
         "ErrSampleTooLarge", "ErrInvalidWeights", ErrWeightsNegative,
         ErrWeightsZeroSum, ErrLambda, ErrAlphaBeta}
  IN (pc = "done" /\ op \in {"WeightedSample", "Categorical", "Poisson", "Gamma"}
        /\ err \in validation) =>
       (consumed = 0 /\ draws = 0)

\* C11: a sampler or weighted-selection call whose parameters are outside
\* their domain (NaN, infinite or negative weights, empty, all-zero or
\* mismatched weight vectors of a non-empty selection, lambda, alpha or beta
\* not > 0, k < 0) returns an invalid-parameter error, the source not failing
C11_InvalidParameterRejected ==
  LET validation ==
        {"ErrNegativeLength", "ErrEmptyItems", "ErrWeightsMismatch",
         "ErrSampleTooLarge", "ErrInvalidWeights", ErrWeightsNegative,
         ErrWeightsZeroSum, ErrLambda, ErrAlphaBeta}
      badWeight == \E i \in 1..Len(arg.ws) : IsNaN(arg.ws[i]) \/ IsInf(arg.ws[i]) \/ IsNeg(arg.ws[i])
      noWeight == \A i \in 1..Len(arg.ws) : IsZero(arg.ws[i])
      outside ==
        CASE op = "Categorical" -> badWeight \/ noWeight
          [] op = "Poisson" -> ~(arg.ws[1].k = "fin" /\ arg.ws[1].v > 0)
          [] op = "Gamma" -> arg.n <= 0 \/ arg.k <= 0
          [] op = "WeightedSample" ->
               arg.k < 0 \/ (arg.k > 0 /\ (arg.n # Len(arg.ws) \/ badWeight \/ noWeight))
          [] OTHER -> FALSE
  IN (pc = "done" /\ failErr = NoErr /\ outside) => err \in validation

C13_DifferentSeedDifferentStream ==
  LET a == det["s1"]
      b == det["s2"]
  IN (a.made /\ b.made /\ (a.seed # b.seed \/ a.label # b.label)) =>
       ~(a.key = b.key /\ a.nonce = b.nonce)

\* C14: however many goroutines call LockedSource(src).Read or a method of
\* LockedRNG(rng) concurrently, at most one call into the wrapped source,
\* and at most one into the wrapped RNG, is in progress at any time.
C14_WrappedCallsSerialized ==
  \A w \in Wrappers : Cardinality(InWrapped(w)) <= 1

\* a call into the wrapped RNG is in progress while the two other goroutines
\* have called the same wrapper and wait for its mutex
C14_Witness ==
  /\ caller["g1"] = [at |-> "inner", w |-> "lockedRNG", m |-> "Uint64"]
  /\ caller["g2"] = [at |-> "lock", w |-> "lockedRNG", m |-> "Float64"]
  /\ caller["g3"] = [at |-> "lock", w |-> "lockedRNG", m |-> "Read"]

\* C16: a GetSource or Reader().Read that starts after a SetSource or
\* ResetSource call has returned obtains the source that call assigned or
\* one assigned later, and the two words of the interface value it obtains
\* always come from one assignment.
C16_SwapAtomicAndVisible ==
  \A g \in Goroutines :
    user[g].at = "use" =>
      /\ user[g].typ = user[g].data
      /\ user[g].typ >= user[g].floor

\* a read that started after the first assignment had returned obtains the
\* second, while another goroutine waits to read
C16_Witness ==
  \E g \in Goroutines :
    /\ user[g].at = "use" /\ user[g].op = "Read"
    /\ user[g].floor = 1 /\ user[g].typ = 2 /\ user[g].data = 2

\* C17: the index returned by Categorical or WeightedChoice has a positive
\* weight, also when the cumulative walk ends without a hit
C17_NeverZeroWeightIndex ==
  (pc = "done" /\ op \in {"Categorical", "WeightedChoice"} /\ err = NoErr) =>
    IsPos(arg.ws[res + 1])

\* C18: WeightedSample called with k = 0, or with as many weights as items,
\* every weight finite and >= 0 and 1 <= k <= the number of positive weights,
\* returns, the source not failing, exactly k items taken from k distinct
\* positions, each of positive weight
C18_SampleDistinctPositive ==
  LET positive == {i \in 1..Len(arg.ws) : IsPos(arg.ws[i])}
      valid == \/ arg.k = 0
               \/ /\ arg.k > 0 /\ arg.n = Len(arg.ws)
                  /\ \A i \in 1..Len(arg.ws) : ~InvalidWeight(arg.ws[i])
                  /\ arg.k <= Cardinality(positive)
  IN (pc = "done" /\ op = "WeightedSample" /\ valid /\ failErr = NoErr) =>
       /\ err = NoErr
       /\ Len(res) = arg.k
       /\ \A x \in 1..Len(res) : res[x] \in positive
       /\ \A x \in 1..Len(res), y \in 1..Len(res) : res[x] = res[y] => x = y

\* two items of different positive weights, both sampled
C18_Witness ==
  /\ pc = "done" /\ op = "WeightedSample" /\ err = NoErr
  /\ arg.k = 2 /\ Len(res) = 2
  /\ arg.ws = <<FinW(1), FinW(2)>>

\* C19: WeightedSample succeeds only when 0 <= k <= the number of
\* positive-weight items; with items, as many weights as items and every
\* weight finite and >= 0, a larger k (any k >= 1 when every weight is
\* zero) fails with the sample-too-large error, the source not failing;
\* a negative k fails with an error
C19_SampleSizeValidated ==
  LET positive == {i \in 1..Len(arg.ws) : IsPos(arg.ws[i])}
      wellFormed == /\ arg.n >= 1 /\ arg.n = Len(arg.ws)
                    /\ \A i \in 1..Len(arg.ws) : ~InvalidWeight(arg.ws[i])
  IN (pc = "done" /\ op = "WeightedSample") =>
       /\ err = NoErr => (0 <= arg.k /\ arg.k <= Cardinality(positive))
       /\ arg.k < 0 => err # NoErr
       /\ (wellFormed /\ arg.k > Cardinality(positive) /\ failErr = NoErr) =>
            err = "ErrSampleTooLarge"

C21_ExplicitSourceOnly ==
  \A x \in Generators : made[x] = OwnSource => reads[x] \subseteq {OwnSource}

\* the default source has been swapped twice and the v1 Generator built
\* without a source has followed it, while the v2 Generator built with its
\* own source has read from that source
C21_Witness ==
  /\ made["v2"] = OwnSource /\ reads["v2"] = {OwnSource}
  /\ made["v1"] = NilSource /\ reads["v1"] = {1, 2}
  /\ retSet = 2

C23_SampleDistinctUnmodified ==
  (pc = "done" /\ op = "Sample" /\ 0 <= arg.k /\ arg.k <= arg.n
     /\ failErr = NoErr) =>
    /\ err = NoErr
    /\ Len(res) = arg.k
    /\ \A x \in 1..Len(res) : res[x] \in 1..arg.n
    /\ \A x \in 1..Len(res), y \in 1..Len(res) : res[x] = res[y] => x = y
    /\ loc.path = "sample" => loc.keys.s = arg.ws

\* both elements of a two-element slice sampled, in swapped order
C23_Witness ==
  /\ pc = "done" /\ op = "Sample" /\ err = NoErr
  /\ arg.n = 2 /\ arg.k = 2 /\ res = <<2, 1>>

\* C24: with limit = MAX_U64 - (MAX_U64 mod n), a Uint64n(n) call still
\* drawing has discarded a raw draw u >= limit, and a call that succeeded
\* returns u mod n for its last raw draw u, which is below limit
C24_RejectionSampling ==
  (op = "Uint64n" /\ arg.n > 0) =>
    LET limit == maxUint64 - (maxUint64 % arg.n)
    IN /\ (pc = "read" /\ draws > 0) => loc.raw >= limit
       /\ (pc = "done" /\ err = NoErr) =>
            (loc.raw < limit /\ res = loc.raw % arg.n)

\* Uint64n(3) has discarded the largest raw value and waits for its redraw
C24_Witness ==
  /\ op = "Uint64n" /\ arg.n = 3 /\ pc = "read"
  /\ draws = 1 /\ loc.raw = maxUint64

\* C25: for every n > 0 fewer than half of the raw values make Uint64n(n)
\* redraw
C25_RedrawBelowHalf ==
  (op = "Uint64n" /\ arg.n > 0) =>
    2 * Cardinality({u \in Word : ~Uint64nAccept(u, arg.n)}) < maxUint64 + 1

\* C25, amended: for every n > 0 fewer than half of the raw values make
\* Uint64n(n) redraw, except for n = (MAX_U64 + 1) / 2, where exactly half do
C25_RedrawAtMostHalf ==
  (op = "Uint64n" /\ arg.n > 0) =>
    LET redraw == Cardinality({u \in Word : ~Uint64nAccept(u, arg.n)})
    IN \/ 2 * redraw < maxUint64 + 1
       \/ 2 * arg.n = maxUint64 + 1 /\ 2 * redraw = maxUint64 + 1

\* Uint64n((MAX_U64 + 1) / 2) has discarded the raw draw (MAX_U64 + 1) / 2
C25_Witness ==
  /\ op = "Uint64n" /\ 2 * arg.n = maxUint64 + 1
  /\ pc = "read" /\ draws = 1 /\ loc.raw = arg.n

C27_PoissonCrossover ==
  (op = "Poisson" /\ pc = "read") =>
    loc.path = IF arg.ws[1].v < 30 THEN "knuth" ELSE "ptrs"

\* C28: for alpha >= 1 (arg.n holds 2 * alpha) a Gamma call that draws is in
\* the Marsaglia-Tsang loop: a standard normal x, v = (1 + c*x)^3 > 0, a
\* uniform u, the cheap and the exact acceptance test
C28_GammaMarsagliaTsang ==
  (op = "Gamma" /\ pc = "read" /\ arg.n >= 2) => loc.path = "marsaglia-tsang"

\* C29: a Zipf sampler built from valid s > 0, v >= 0, imax >= 1 has a table
\* of exactly imax entries, non-decreasing, within [0, 1], whose last entry
\* is 1; a draw leaves the table as it found it
C29_ZipfTable ==
  zipf.imax >= 1 =>
    /\ Len(zipf.cdf) = zipf.imax
    /\ \A i \in 1..Len(zipf.cdf) :
         /\ zipf.cdf[i].k = "fin"
         /\ 0 <= zipf.cdf[i].n /\ zipf.cdf[i].n <= zipf.cdf[i].d
         /\ i > 1 => zipf.cdf[i - 1].n * zipf.cdf[i].d
                       <= zipf.cdf[i].n * zipf.cdf[i - 1].d
    /\ zipf.cdf[zipf.imax].n = zipf.cdf[zipf.imax].d
    /\ (op = "Zipf.Next" /\ pc \in {"read", "done"}) => zipf.cdf = loc.keys

\* C30: a successful Zipf.Next returns the 1-based index of the first table
\* entry that is >= the uniform draw, an index within [1, imax]
C30_ZipfNextFirstEntry ==
  (op = "Zipf.Next" /\ pc = "done" /\ err = NoErr) =>
    /\ res \in 1..zipf.imax
    /\ ZipfLe(loc.u, zipf.cdf[res])
    /\ \A i \in 1..(res - 1) : ~ZipfLe(loc.u, zipf.cdf[i])
====
